---- MODULE Spec2Model ----
(***************************************************************************)
(* Model of backend/controllers/subscriptionController.js: the four HTTP   *)
(* handlers createCheckoutSession, webHook, cancelPayment and              *)
(* cancelSubscription over the Subscription and PaymentLog collections and *)
(* the payment processor (stripe) client.                                  *)
(*                                                                         *)
(* ObjectIds are positive naturals; 0 (NoId) is null / undefined.  The     *)
(* string form of an ObjectId n is the record [hex |-> n], and [hex |-> 0] *)
(* is the empty or absent string.  Any other absent string is Undefined or *)
(* "".  new Date() is the variable now, in milliseconds.                   *)
(*                                                                         *)
(* Spec serves every request whole.  SpecLifecycle follows one subscriber  *)
(* from checkout to cancellation.  SpecConcurrent and SpecRedelivery serve *)
(* requests step by step, one step for each awaited call on shared state,  *)
(* so that requests interleave.                                            *)
(***************************************************************************)
EXTENDS Naturals, Sequences, FiniteSets

\* ---------------------------------------------------------------- bounds
MaxRequests == 2      \* handler invocations in one behaviour
MaxNow == 1           \* the clock runs over 0 .. MaxNow seconds
NumUsers == 2         \* documents of the User collection
NumLogIds == 2        \* PaymentLog ids a cancel-payment request may name

\* ------------------------------------------------------------- constants
MsPerSec == 1000
NoId == 0
Undefined == "undefined"

User == 1 .. NumUsers
\* req.user._id: an existing user, or one deleted since the token was issued
Callers == 1 .. (NumUsers + 1)
SubscriptionIds == {"sub_1", "sub_2"}
SubscriptionStatuses == {"incomplete", "trialing", "active"}

InvoiceTypes == {"invoice.payment_succeeded", "invoice.updated", "invoice.created"}
MetadataTypes == {"customer.subscription.created", "customer.subscription.updated",
                  "checkout.session.completed", "payment_intent.succeeded",
                  "payment_intent.created"}
UnloggedTypes == {"charge.succeeded", "payment_method.attached"}
OtherTypes == {"customer.created"}
SubscriptionTypes == {"customer.subscription.created", "customer.subscription.updated"}
EventTypes == InvoiceTypes \cup MetadataTypes \cup UnloggedTypes \cup OtherTypes

\* ------------------------------------------------------------ conversions
\* ObjectId.prototype.toString()
ObjectIdToString(id) == [hex |-> id]

\* the cast of a string to the ObjectId of a schema path
CastObjectId(s) == s.hex

\* common.changeUnixTimestampFormat: Unix seconds to a Date
changeUnixTimestampFormat(ts) == ts * MsPerSec

\* ------------------------------------------------------- request payloads
NoMetadata == [present |-> FALSE, userId |-> ObjectIdToString(NoId),
               paymentLog |-> ObjectIdToString(NoId), priceId |-> Undefined]
NoSubscriptionDetails == [present |-> FALSE, userId |-> ObjectIdToString(NoId)]
NoObject == [present |-> FALSE, id |-> Undefined, status |-> Undefined,
             created |-> 0, current_period_end |-> 0, customer |-> Undefined,
             cancel_at_period_end |-> FALSE,
             metadata |-> NoMetadata, subscription_details |-> NoSubscriptionDetails]
NoEnvelope == [type |-> Undefined, data |-> [object |-> NoObject]]
NoRequest == [price |-> Undefined, quantity |-> 0]

\* An ObjectId this store never issues: it issues one PaymentLog id per
\* request at most.
StrayLogId == MaxRequests + 1

\* metadata naming a payment log that is not in this store
StrayMetadata(u) ==
  [present |-> TRUE, userId |-> ObjectIdToString(u),
   paymentLog |-> ObjectIdToString(StrayLogId), priceId |-> "price_1"]

\* The processor echoes, in every event of a subscription, the metadata of the
\* checkout that bought it: sub_1 was bought through the first checkout
\* session of this store, sub_2 through a checkout this store has no log of.
SubscriptionMetadata(id, sess) ==
  IF id = "sub_1" THEN sess[1].metadata ELSE StrayMetadata(NumUsers)

\* the subscriptions the processor can report on
KnownSubscriptionIds(sess) ==
  { id \in SubscriptionIds : id = "sub_1" => Len(sess) > 0 }

\* data.object of a customer.subscription.* event sent at `clock`: the
\* subscription's running period ends with the current second
SubscriptionObjects(clock, sess) ==
  { [present |-> TRUE, id |-> id, status |-> st, created |-> clock \div MsPerSec,
     current_period_end |-> clock \div MsPerSec, customer |-> "cus_1",
     cancel_at_period_end |-> c, metadata |-> SubscriptionMetadata(id, sess),
     subscription_details |-> NoSubscriptionDetails] :
       id \in KnownSubscriptionIds(sess), st \in SubscriptionStatuses, c \in BOOLEAN }

\* data.object of the other events (an invoice, a session, a payment intent)
PlainObject(u, st) ==
  [present |-> TRUE, id |-> "obj_1", status |-> st, created |-> 0,
   current_period_end |-> 0, customer |-> "cus_1", cancel_at_period_end |-> FALSE,
   metadata |-> StrayMetadata(u),
   subscription_details |-> [present |-> TRUE,
                             userId |-> ObjectIdToString(NumUsers + 1 - u)]]

\* an object without metadata and without subscription_details
BareObject == [NoObject EXCEPT !.present = TRUE, !.id = "obj_1", !.status = "paid"]

\* a subscription that has just been created is not yet set to cancel
SubscriptionEnvelopes(clock, sess) ==
  { e \in [type : SubscriptionTypes, data : [object : SubscriptionObjects(clock, sess)]] :
      e.type = "customer.subscription.created" => ~e.data.object.cancel_at_period_end }

\* one well-formed event of every other type, and an invoice without a status
PlainEnvelopes ==
  [type : EventTypes \ SubscriptionTypes, data : [object : {PlainObject(1, "paid")}]]
  \cup [type : {"invoice.created"}, data : [object : {PlainObject(NumUsers, Undefined)}]]

\* events without data.object, and events whose object carries neither
\* metadata nor subscription_details
MalformedEnvelopes ==
  [type : {"invoice.updated", "payment_intent.created", "customer.created"},
   data : [object : {NoObject}]]
  \cup [type : {"invoice.created", "customer.subscription.updated"},
        data : [object : {BareObject}]]

Envelopes(clock, sess) ==
  SubscriptionEnvelopes(clock, sess) \cup PlainEnvelopes \cup MalformedEnvelopes

\* ------------------------------------------------------------------ state
VARIABLES
  subscriptions,   \* the Subscription collection, in insertion order
  paymentLogs,     \* the PaymentLog collection, in insertion order
  now,             \* new Date(), in milliseconds
  sessions,        \* checkout sessions the processor has created
  updates,         \* stripe.subscriptions.update calls the processor has taken
  req,             \* the request of the latest handler invocation
  res,             \* its response: statusCode, whether a body was sent, the body
  error,           \* the message of the error it threw, or "" if it returned
  ops,             \* the store and processor calls it made, in order
  before,          \* the collections, processor calls and time it started from
  nreq,            \* handler invocations so far
  requests         \* the requests served step by step: position, what each saw

vars == <<subscriptions, paymentLogs, now, sessions, updates, req, res, error, ops,
          before, nreq, requests>>

\* a fresh express response: statusCode 200, nothing sent
NewResponse == [statusCode |-> 200, sent |-> FALSE, body |-> <<"unsent">>]

\* res.status(code)
status(r, code) == [r EXCEPT !.statusCode = code]

\* res.json(body)
json(r, body) == [r EXCEPT !.sent = TRUE, !.body = body]

\* ----------------------------------------------------------------- stores
\* a store that acknowledges a document and does not keep it
create_Dropped(coll, doc) == coll

\* Model.create(doc): the store assigns the next _id
create(coll, doc) == Append(coll, [doc EXCEPT !._id = Len(coll) + 1])

\* Model.findOne(filter): the _id of the first of the documents the filter
\* matches (hits: their positions in the collection), or NoId
findOne(coll, hits) ==
  IF hits # {}
    THEN coll[CHOOSE i \in hits : \A j \in hits : i <= j]._id
    ELSE NoId

\* a document with the paths of the patch set
Patched(doc, patch) ==
  [f \in DOMAIN doc |-> IF f \in DOMAIN patch THEN patch[f] ELSE doc[f]]

\* Model.updateOne({_id: id}, patch)
updateOne(coll, id, patch) ==
  [i \in 1 .. Len(coll) |-> IF coll[i]._id = id THEN Patched(coll[i], patch) ELSE coll[i]]

\* a Subscription document created once for each subscription id
handleCreateSubscription_Once(subs, subData, subscriptionType) ==
  IF \E i \in DOMAIN subs : subs[i].subscriptionId = subData.id
    THEN subs
    ELSE create(subs,
                [_id |-> NoId,
                 userId |-> CastObjectId(subData.metadata.userId),
                 subscriptionId |-> subData.id,
                 subscriptionStatus |-> subData.status,
                 startDate |-> changeUnixTimestampFormat(subData.created),
                 endDate |-> changeUnixTimestampFormat(subData.current_period_end),
                 paymentStatus |-> "complete",
                 subscriptionType |-> subscriptionType,
                 customerId |-> subData.customer,
                 priceId |-> subData.metadata.priceId])

\* a Subscription document keyed by the customer instead of the subscription
handleCreateSubscription_CustomerId(subs, subData, subscriptionType) ==
  create(subs,
         [_id |-> NoId,
          userId |-> CastObjectId(subData.metadata.userId),
          subscriptionId |-> subData.customer,
          subscriptionStatus |-> subData.status,
          startDate |-> changeUnixTimestampFormat(subData.created),
          endDate |-> changeUnixTimestampFormat(subData.current_period_end),
          paymentStatus |-> "complete",
          subscriptionType |-> subscriptionType,
          customerId |-> subData.customer,
          priceId |-> subData.metadata.priceId])

\* a Subscription document
handleCreateSubscription(subs, subData, subscriptionType) ==
  create(subs,
         [_id |-> NoId,
          userId |-> CastObjectId(subData.metadata.userId),
          subscriptionId |-> subData.id,
          subscriptionStatus |-> subData.status,
          startDate |-> changeUnixTimestampFormat(subData.created),
          endDate |-> changeUnixTimestampFormat(subData.current_period_end),
          paymentStatus |-> "complete",
          subscriptionType |-> subscriptionType,
          customerId |-> subData.customer,
          priceId |-> subData.metadata.priceId])

\* a PaymentLog document with every path unset
NewPaymentLog == [_id |-> NoId, userId |-> NoId, request |-> NoRequest,
                  response |-> NoEnvelope, status |-> Undefined, event |-> Undefined]

\* ---------------------------------------------------------------- webHook
\* what a handler leaves behind: the two collections, the processor's calls,
\* the response, the error thrown and the calls made
Outcome(subs, logs, sess, upd, r, err, calls) ==
  [subscriptions |-> subs, paymentLogs |-> logs, sessions |-> sess, updates |-> upd,
   res |-> r, error |-> err, ops |-> calls]

\* createObj.status
DerivedStatus(data) ==
  IF data.object.present /\ data.object.status # Undefined
    THEN data.object.status ELSE "NO-STATUS"

\* reading data.object.subscription_details.userId or data.object.metadata.userId
\* of an absent object is a TypeError
UserIdThrows(type, data) ==
  \/ /\ type \in InvoiceTypes
     /\ ~(data.object.present /\ data.object.subscription_details.present)
  \/ /\ type \in MetadataTypes
     /\ ~(data.object.present /\ data.object.metadata.present)

\* createObj.userId read from the metadata for the invoice events too
DerivedUserId_MetadataOnly(type, data) ==
  IF type \in InvoiceTypes \cup MetadataTypes
    THEN CastObjectId(data.object.metadata.userId)
    ELSE NoId

\* createObj.userId, cast to the ObjectId of the PaymentLog schema
DerivedUserId(type, data) ==
  IF type \in InvoiceTypes THEN CastObjectId(data.object.subscription_details.userId)
  ELSE IF type \in MetadataTypes THEN CastObjectId(data.object.metadata.userId)
  ELSE NoId

\* the raw processor status, never normalised
RenewalStatus_Raw(data) == data.object.status

\* the status written back to the originating PaymentLog on a renewal
RenewalStatus(data) ==
  IF data.object.status = "active" THEN "success" ELSE data.object.status

\* a lookup that takes a record of any status
IsIncomplete_AnyStatus(id, d) == d.subscriptionId = id

\* the filter of the lookup for the subscription an update event is about
IsIncomplete(id, d) == d.subscriptionId = id /\ d.subscriptionStatus = "incomplete"

\* whether the event is written to the PaymentLog collection
IsLogged(type) == type # "charge.succeeded" /\ type # "payment_method.attached"

\* every update taken for a renewal
IsRenewal_Always(subData) == TRUE

\* the branch taken for the cancellations instead
IsRenewal_Inverted(subData) == subData.cancel_at_period_end

\* an update that is a renewal, not a cancellation
IsRenewal(subData) == ~subData.cancel_at_period_end

\* a patch that forgets the subscription type
ActivatePatch_StatusOnly == [subscriptionStatus |-> "active"]

\* the patch of an incomplete subscription
ActivatePatch == [subscriptionStatus |-> "active", subscriptionType |-> "new"]

\* a patch that keeps the response the log had
RenewalLogPatch_KeepResponse(params) ==
  [status |-> RenewalStatus(params.data), event |-> params.type]

\* the patch of the PaymentLog a renewal refers to
RenewalLogPatch(params) ==
  [response |-> params, status |-> RenewalStatus(params.data), event |-> params.type]

\* the PaymentLog document of a delivery
createObj(params) ==
  [NewPaymentLog EXCEPT !.response = params,
                        !.status = DerivedStatus(params.data),
                        !.event = params.type,
                        !.userId = DerivedUserId(params.type, params.data)]

webHook(subs, logs, sess, upd, params) ==
  LET type == params.type
      data == params.data
      logged == IsLogged(type)
      logs1 == IF logged THEN create(logs, createObj(params)) ELSE logs
      ops1 == IF logged THEN <<"PaymentLog.create">> ELSE <<>>
      subData == data.object
      isCreated == type = "customer.subscription.created"
      subs1 == IF isCreated
                 THEN handleCreateSubscription(subs, subData, subData.status)
                 ELSE subs
      ops2 == IF isCreated THEN Append(ops1, "Subscription.create") ELSE ops1
      sub == findOne(subs1, {i \in DOMAIN subs1 : IsIncomplete(subData.id, subs1[i])})
  IN IF UserIdThrows(type, data)
       THEN Outcome(subs, logs, sess, upd, NewResponse, "TypeError", <<>>)
     ELSE IF type # "customer.subscription.updated"
       THEN Outcome(subs1, logs1, sess, upd, json(status(NewResponse, 200), <<>>), "", ops2)
     ELSE IF sub # NoId
       THEN Outcome(updateOne(subs1, sub, ActivatePatch), logs1, sess, upd,
                    json(status(NewResponse, 200), <<>>), "",
                    ops2 \o <<"Subscription.findOne", "Subscription.updateOne">>)
     ELSE IF IsRenewal(subData)
       THEN Outcome(handleCreateSubscription(subs1, subData, "renewal"),
                    updateOne(logs1, CastObjectId(data.object.metadata.paymentLog),
                              RenewalLogPatch(params)),
                    sess, upd, json(status(NewResponse, 200), <<>>), "",
                    ops2 \o <<"Subscription.findOne", "Subscription.create",
                              "PaymentLog.updateOne">>)
     ELSE Outcome(subs1, logs1, sess, upd, json(status(NewResponse, 200), <<>>), "",
                  Append(ops2, "Subscription.findOne"))

\* -------------------------------------------------- createCheckoutSession
TrialPeriodDays == 3

\* req.body of a checkout request; "" is an absent or empty parameter
ValidCheckoutBodies ==
  [type : {"", "trial"}, successUrl : {"https://app/success"},
   cancelUrl : {"https://app/cancel"}]

InvalidCheckoutBodies ==
  { [type |-> "monthly", successUrl |-> "https://app/success",
     cancelUrl |-> "https://app/cancel"],
    [type |-> "", successUrl |-> "", cancelUrl |-> "https://app/cancel"],
    [type |-> "trial", successUrl |-> "https://app/success", cancelUrl |-> ""],
    [type |-> "monthly", successUrl |-> "", cancelUrl |-> ""] }

\* a checkout request: req.user._id and req.body
CheckoutRequests ==
  (Callers \X ValidCheckoutBodies) \cup ({1} \X InvalidCheckoutBodies)

\* what the processor answers: stripe.products.list() with or without a
\* product, and stripe.checkout.sessions.create / stripe.subscriptions.update
\* succeeding or failing
Catalogues == {<<>>, <<[default_price |-> "price_1"]>>}
Processors == { s \in [products : Catalogues, ok : BOOLEAN] : s.ok \/ Len(s.products) > 0 }

\* a filter that forgets trialing subscriptions
IsActiveAt_NoTrial(clock, d) == d.subscriptionStatus = "active" /\ d.endDate >= clock

\* the $and filter of the active-subscription lookups
IsActiveAt(clock, d) ==
  /\ d.subscriptionStatus = "active" \/ d.subscriptionStatus = "trialing"
  /\ d.endDate >= clock

\* a filter that forgets the owner
IsActiveOf_AnyUser(_id, clock, d) == IsActiveAt(clock, d)

\* the filter of one user's live subscriptions
IsActiveOf(_id, clock, d) == d.userId = _id /\ IsActiveAt(clock, d)

\* a validation that lets a request with one URL through
MissingParameters_Both(successUrl, cancelUrl) == successUrl = "" /\ cancelUrl = ""

\* the required parameters of a checkout
MissingParameters(successUrl, cancelUrl) == successUrl = "" \/ cancelUrl = ""

\* the only type a checkout may name is "trial"
InvalidType(type) == type # "" /\ type # "trial"

\* subscription_data of the checkout session
SubscriptionData(type, metaDataObj) ==
  [metadata |-> metaDataObj,
   trial_settings |-> IF type = "trial" THEN "cancel" ELSE Undefined,
   trial_period_days |-> IF type = "trial" THEN TrialPeriodDays ELSE 0]

\* a variant that sends the caller's id where the payment log's id belongs
metaDataObj_UserAsLog(payment, _id, priceId) ==
  [present |-> TRUE,
   userId |-> ObjectIdToString(_id),
   paymentLog |-> ObjectIdToString(_id),
   priceId |-> priceId]

\* the metadata sent with the checkout session
metaDataObj(payment, _id, priceId) ==
  [present |-> TRUE,
   userId |-> ObjectIdToString(_id),
   paymentLog |-> ObjectIdToString(payment._id),
   priceId |-> priceId]

\* a checkout that takes over the open payment log of an earlier attempt
paymentLogCreate_Reused(logs, _id, reqObj) ==
  IF \E i \in DOMAIN logs : /\ logs[i].userId = _id /\ logs[i].request = reqObj
                            /\ logs[i].response = NoEnvelope
    THEN logs
    ELSE create(logs, [NewPaymentLog EXCEPT !.userId = _id, !.request = reqObj])

\* PaymentLog.create({userId: _id, request: reqObj})
paymentLogCreate(logs, _id, reqObj) ==
  create(logs, [NewPaymentLog EXCEPT !.userId = _id, !.request = reqObj])

\* the session stripe.checkout.sessions.create returns, the n-th it created
checkoutSession(n, payment, _id, params, reqObj) ==
  [url |-> <<"https://checkout", n>>,
   line_items |-> <<reqObj>>,
   mode |-> "subscription",
   subscription_data |-> SubscriptionData(params.type,
                                          metaDataObj(payment, _id, reqObj.price)),
   metadata |-> metaDataObj(payment, _id, reqObj.price),
   success_url |-> params.successUrl,
   cancel_url |-> <<params.cancelUrl, "?id=", ObjectIdToString(payment._id)>>]

createCheckoutSession(subs, logs, sess, upd, clock, _id, params, stripe) ==
  LET type == params.type
      successUrl == params.successUrl
      cancelUrl == params.cancelUrl
      activeSub == findOne(subs, {i \in DOMAIN subs : IsActiveOf(_id, clock, subs[i])})
      products == stripe.products
      reqObj == [price |-> products[1].default_price, quantity |-> 1]
      logs1 == paymentLogCreate(logs, _id, reqObj)
      payment == logs1[Len(logs1)]
      session == checkoutSession(Len(sess) + 1, payment, _id, params, reqObj)
  IN IF MissingParameters(successUrl, cancelUrl)
       THEN Outcome(subs, logs, sess, upd, status(NewResponse, 400),
                    "Please pass required all parameters.", <<>>)
     ELSE IF InvalidType(type)
       THEN Outcome(subs, logs, sess, upd, status(NewResponse, 400),
                    "Please pass valid type", <<>>)
     ELSE IF _id \notin User
       THEN Outcome(subs, logs, sess, upd, status(NewResponse, 401),
                    "User not found.", <<"User.findById">>)
     ELSE IF activeSub # NoId
       THEN Outcome(subs, logs, sess, upd, status(NewResponse, 401),
                    "Subscription already exist.",
                    <<"User.findById", "Subscription.findOne">>)
     ELSE IF Len(products) = 0
       THEN Outcome(subs, logs, sess, upd, status(NewResponse, 401),
                    "Plan not found.",
                    <<"User.findById", "Subscription.findOne", "stripe.products.list">>)
     ELSE IF ~stripe.ok
       THEN Outcome(subs, logs1, sess, upd, NewResponse, "StripeError",
                    <<"User.findById", "Subscription.findOne", "stripe.products.list",
                      "PaymentLog.create", "stripe.checkout.sessions.create">>)
     ELSE Outcome(subs, logs1, Append(sess, session), upd,
                  json(status(NewResponse, 200), <<[url |-> session.url]>>), "",
                  <<"User.findById", "Subscription.findOne", "stripe.products.list",
                    "PaymentLog.create", "stripe.checkout.sessions.create">>)

\* ---------------------------------------------------------- cancelPayment
CancelPaymentBodies == [paymentId : {ObjectIdToString(p) : p \in 0 .. NumLogIds}]

\* a variant that marks the status and leaves the event
cancelPatch_StatusOnly == [status |-> "cancel"]

\* the fields cancelPayment sets
cancelPatch == [status |-> "cancel", event |-> "cancel"]

cancelPayment(subs, logs, sess, upd, params) ==
  LET paymentId == params.paymentId
  IN IF paymentId = ObjectIdToString(NoId)
       THEN Outcome(subs, logs, sess, upd, status(NewResponse, 400),
                    "Please pass required all parameters.", <<>>)
     ELSE Outcome(subs, updateOne(logs, CastObjectId(paymentId), cancelPatch), sess, upd,
                  json(status(NewResponse, 200), <<[success |-> TRUE]>>), "",
                  <<"PaymentLog.updateOne">>)

\* ----------------------------------------------------- cancelSubscription
\* a cancel request: req.user._id and req.body; "" is an absent or empty id
CancelSubscriptionRequests ==
  (Callers \X [subscriptionId : SubscriptionIds]) \cup ({1} \X [subscriptionId : {""}])

\* a variant that asks the processor to keep the subscription running
cancelAtPeriodEnd_Kept(subscriptionId) ==
  [id |-> subscriptionId, cancel_at_period_end |-> FALSE]

\* the call stripe.subscriptions.update(subscriptionId, {cancel_at_period_end: true})
cancelAtPeriodEnd(subscriptionId) ==
  [id |-> subscriptionId, cancel_at_period_end |-> TRUE]

cancelSubscription(subs, logs, sess, upd, clock, _id, params, stripe) ==
  LET subscriptionId == params.subscriptionId
      sub == findOne(subs, {i \in DOMAIN subs :
                              /\ subs[i].subscriptionId = subscriptionId
                              /\ IsActiveOf(_id, clock, subs[i])})
  IN IF subscriptionId = ""
       THEN Outcome(subs, logs, sess, upd, status(NewResponse, 400),
                    "Please pass required all parameters.", <<>>)
     ELSE IF sub = NoId
       THEN Outcome(subs, logs, sess, upd, status(NewResponse, 400),
                    "Subscription does not exist.", <<"Subscription.findOne">>)
     ELSE IF ~stripe.ok
       THEN Outcome(subs, logs, sess, upd, NewResponse, "StripeError",
                    <<"Subscription.findOne", "stripe.subscriptions.update">>)
     ELSE Outcome(subs, logs,  sess,
                  Append(upd, cancelAtPeriodEnd(subscriptionId)),
                  json(status(NewResponse, 200), <<[success |-> TRUE]>>), "",
                  <<"Subscription.findOne", "stripe.subscriptions.update">>)

\* ---------------------------------------------------------------- actions
Init ==
  /\ subscriptions = <<>>
  /\ paymentLogs = <<>>
  /\ now = 0
  /\ sessions = <<>>
  /\ updates = <<>>
  /\ req = [handler |-> "none", user |-> NoId, body |-> [none |-> TRUE]]
  /\ res = NewResponse
  /\ error = ""
  /\ ops = <<>>
  /\ before = [subscriptions |-> <<>>, paymentLogs |-> <<>>, sessions |-> <<>>,
               updates |-> <<>>, now |-> 0]
  /\ nreq = 0
  /\ requests = <<>>

CreateCheckoutSession ==
  \E r \in CheckoutRequests, stripe \in Processors :
    LET _id == r[1]
        params == r[2]
        out == createCheckoutSession(subscriptions, paymentLogs, sessions, updates,
                                     now, _id, params, stripe)
    IN /\ nreq < MaxRequests
       /\ nreq' = nreq + 1
       /\ req' = [handler |-> "createCheckoutSession", user |-> _id, body |-> params]
       /\ subscriptions' = out.subscriptions
       /\ paymentLogs' = out.paymentLogs
       /\ sessions' = out.sessions
       /\ updates' = out.updates
       /\ res' = out.res
       /\ error' = out.error
       /\ ops' = out.ops
       /\ before' = [subscriptions |-> subscriptions, paymentLogs |-> paymentLogs,
                     sessions |-> sessions, updates |-> updates, now |-> now]
       /\ UNCHANGED <<now, requests>>

\* the webhook route takes no authenticated user
WebHook ==
  \E params \in Envelopes(now, sessions) :
    LET out == webHook(subscriptions, paymentLogs, sessions, updates, params)
    IN /\ nreq < MaxRequests
       /\ nreq' = nreq + 1
       /\ req' = [handler |-> "webHook", user |-> NoId, body |-> params]
       /\ subscriptions' = out.subscriptions
       /\ paymentLogs' = out.paymentLogs
       /\ sessions' = out.sessions
       /\ updates' = out.updates
       /\ res' = out.res
       /\ error' = out.error
       /\ ops' = out.ops
       /\ before' = [subscriptions |-> subscriptions, paymentLogs |-> paymentLogs,
                     sessions |-> sessions, updates |-> updates, now |-> now]
       /\ UNCHANGED <<now, requests>>

\* the handler never reads req.user
CancelPayment ==
  \E params \in CancelPaymentBodies :
    LET out == cancelPayment(subscriptions, paymentLogs, sessions, updates, params)
    IN /\ nreq < MaxRequests
       /\ nreq' = nreq + 1
       /\ req' = [handler |-> "cancelPayment", user |-> NoId, body |-> params]
       /\ subscriptions' = out.subscriptions
       /\ paymentLogs' = out.paymentLogs
       /\ sessions' = out.sessions
       /\ updates' = out.updates
       /\ res' = out.res
       /\ error' = out.error
       /\ ops' = out.ops
       /\ before' = [subscriptions |-> subscriptions, paymentLogs |-> paymentLogs,
                     sessions |-> sessions, updates |-> updates, now |-> now]
       /\ UNCHANGED <<now, requests>>

CancelSubscription ==
  \E r \in CancelSubscriptionRequests, stripe \in Processors :
    LET _id == r[1]
        params == r[2]
        out == cancelSubscription(subscriptions, paymentLogs, sessions, updates,
                                  now, _id, params, stripe)
    IN /\ nreq < MaxRequests
       /\ nreq' = nreq + 1
       /\ req' = [handler |-> "cancelSubscription", user |-> _id, body |-> params]
       /\ subscriptions' = out.subscriptions
       /\ paymentLogs' = out.paymentLogs
       /\ sessions' = out.sessions
       /\ updates' = out.updates
       /\ res' = out.res
       /\ error' = out.error
       /\ ops' = out.ops
       /\ before' = [subscriptions |-> subscriptions, paymentLogs |-> paymentLogs,
                     sessions |-> sessions, updates |-> updates, now |-> now]
       /\ UNCHANGED <<now, requests>>

\* time passes between requests
Tick ==
  /\ now < MaxNow * MsPerSec
  /\ now' = now + MsPerSec
  /\ UNCHANGED <<subscriptions, paymentLogs, sessions, updates, req, res, error, ops,
                 before, nreq, requests>>

Next == CreateCheckoutSession \/ WebHook \/ CancelPayment \/ CancelSubscription \/ Tick

Spec == Init /\ [][Next]_vars

\* ------------------------------------------------- one subscriber's story
\* The requests of one user over the life of the subscription bought through
\* the first checkout: checkout, the processor's events about it, and the
\* cancellation. The processor reports cancel_at_period_end as it was asked.
MaxLifecycle == 4

Subscriber == 1

\* whether the processor was asked to cancel the subscription at period end
CancelRequested(upd, id) ==
  \E k \in DOMAIN upd : upd[k].id = id /\ upd[k].cancel_at_period_end

\* the events the processor sends about the subscriber's subscription
LifecycleEnvelopes(clock, sess, upd) ==
  { e \in SubscriptionEnvelopes(clock, sess) :
      /\ e.data.object.id = "sub_1"
      /\ e.data.object.cancel_at_period_end = CancelRequested(upd, "sub_1") }

Subscribe ==
  \E params \in ValidCheckoutBodies :
    LET stripe == [products |-> <<[default_price |-> "price_1"]>>, ok |-> TRUE]
        out == createCheckoutSession(subscriptions, paymentLogs, sessions, updates,
                                     now, Subscriber, params, stripe)
    IN /\ nreq < MaxLifecycle
       /\ nreq' = nreq + 1
       /\ req' = [handler |-> "createCheckoutSession", user |-> Subscriber,
                  body |-> params]
       /\ subscriptions' = out.subscriptions
       /\ paymentLogs' = out.paymentLogs
       /\ sessions' = out.sessions
       /\ updates' = out.updates
       /\ res' = out.res
       /\ error' = out.error
       /\ ops' = out.ops
       /\ before' = [subscriptions |-> subscriptions, paymentLogs |-> paymentLogs,
                     sessions |-> sessions, updates |-> updates, now |-> now]
       /\ UNCHANGED <<now, requests>>

Notify ==
  \E params \in LifecycleEnvelopes(now, sessions, updates) :
    LET out == webHook(subscriptions, paymentLogs, sessions, updates, params)
    IN /\ nreq < MaxLifecycle
       /\ nreq' = nreq + 1
       /\ req' = [handler |-> "webHook", user |-> NoId, body |-> params]
       /\ subscriptions' = out.subscriptions
       /\ paymentLogs' = out.paymentLogs
       /\ sessions' = out.sessions
       /\ updates' = out.updates
       /\ res' = out.res
       /\ error' = out.error
       /\ ops' = out.ops
       /\ before' = [subscriptions |-> subscriptions, paymentLogs |-> paymentLogs,
                     sessions |-> sessions, updates |-> updates, now |-> now]
       /\ UNCHANGED <<now, requests>>

Unsubscribe ==
  LET params == [subscriptionId |-> "sub_1"]
      stripe == [products |-> <<[default_price |-> "price_1"]>>, ok |-> TRUE]
      out == cancelSubscription(subscriptions, paymentLogs, sessions, updates,
                                now, Subscriber, params, stripe)
  IN /\ nreq < MaxLifecycle
     /\ nreq' = nreq + 1
     /\ req' = [handler |-> "cancelSubscription", user |-> Subscriber, body |-> params]
     /\ subscriptions' = out.subscriptions
     /\ paymentLogs' = out.paymentLogs
     /\ sessions' = out.sessions
     /\ updates' = out.updates
     /\ res' = out.res
     /\ error' = out.error
     /\ ops' = out.ops
     /\ before' = [subscriptions |-> subscriptions, paymentLogs |-> paymentLogs,
                   sessions |-> sessions, updates |-> updates, now |-> now]
     /\ UNCHANGED <<now, requests>>

LifecycleNext == Subscribe \/ Notify \/ Unsubscribe

SpecLifecycle == Init /\ [][LifecycleNext]_vars

\* ------------------------------------------------ requests that interleave
\* Every await of a handler is a point where another request may run. A
\* request is served in steps, one for each store or processor call that
\* reads or writes what another request writes; the calls between two such
\* points belong to the step that follows them.
MaxConcurrent == 4
MaxFlights == 2

\* the requests that have not returned
Flights == { s \in DOMAIN requests : requests[s].pc # "done" }

\* a request that has just come in
NewFlight(handler, _id, params) ==
  [handler |-> handler, user |-> _id, body |-> params, pc |-> "done",
   sub |-> NoId, payment |-> NoId, made |-> NoId,
   logsAtCheck |-> 0, activatedAtFind |-> 0,
   res |-> NewResponse, error |-> ""]

\* the processor's events about the subscriber's subscription: it is created
\* incomplete and becomes active with the first payment
ConcurrentEnvelopes(clock, sess) ==
  { e \in SubscriptionEnvelopes(clock, sess) :
      /\ e.data.object.id = "sub_1"
      /\ ~e.data.object.cancel_at_period_end
      /\ e.data.object.status = IF e.type = "customer.subscription.created"
                                  THEN "incomplete" ELSE "active" }

\* the line item of the only product
ReqObj == [price |-> "price_1", quantity |-> 1]

\* createCheckoutSession up to the lookup of a live subscription
CheckoutCheck ==
  \E params \in {b \in ValidCheckoutBodies : b.type = ""} :
    LET activeSub == findOne(subscriptions,
                             {i \in DOMAIN subscriptions :
                                IsActiveOf(Subscriber, now, subscriptions[i])})
        r == NewFlight("createCheckoutSession", Subscriber, params)
    IN /\ Len(requests) < MaxConcurrent
       /\ Cardinality(Flights) < MaxFlights
       /\ requests' =
            Append(requests,
                   IF activeSub # NoId
                     THEN [r EXCEPT !.sub = activeSub,
                                    !.res = status(NewResponse, 401),
                                    !.error = "Subscription already exist."]
                     ELSE [r EXCEPT !.pc = "log",
                                    !.logsAtCheck = Len(paymentLogs)])
       /\ UNCHANGED <<subscriptions, paymentLogs, now, sessions, updates, req, res,
                      error, ops, before, nreq>>

\* createCheckoutSession from stripe.products.list to PaymentLog.create
CheckoutLog ==
  \E s \in DOMAIN requests :
    LET r == requests[s]
        logs1 == paymentLogCreate(paymentLogs, r.user, ReqObj)
    IN /\ r.handler = "createCheckoutSession" /\ r.pc = "log"
       /\ paymentLogs' = logs1
       /\ requests' = [requests EXCEPT ![s].pc = "session",
                                       ![s].payment = logs1[Len(logs1)]._id]
       /\ UNCHANGED <<subscriptions, now, sessions, updates, req, res, error, ops,
                      before, nreq>>

\* createCheckoutSession from stripe.checkout.sessions.create to the response
CheckoutSession ==
  \E s \in DOMAIN requests :
    LET r == requests[s]
        session == checkoutSession(Len(sessions) + 1, [_id |-> r.payment], r.user,
                                   r.body, ReqObj)
    IN /\ r.handler = "createCheckoutSession" /\ r.pc = "session"
       /\ sessions' = Append(sessions, session)
       /\ requests' = [requests EXCEPT
                         ![s].pc = "done",
                         ![s].res = json(status(NewResponse, 200),
                                         <<[url |-> session.url]>>)]
       /\ UNCHANGED <<subscriptions, paymentLogs, now, updates, req, res, error, ops,
                      before, nreq>>

\* webHook up to PaymentLog.create
Deliver ==
  \E params \in ConcurrentEnvelopes(now, sessions) :
    LET r == NewFlight("webHook", NoId, params)
        logs1 == create(paymentLogs, createObj(params))
    IN /\ Len(requests) < MaxConcurrent
       /\ Cardinality(Flights) < MaxFlights
       /\ ~UserIdThrows(params.type, params.data) /\ IsLogged(params.type)
       /\ paymentLogs' = logs1
       /\ requests' =
            Append(requests,
                   [r EXCEPT !.payment = logs1[Len(logs1)]._id,
                             !.pc = IF params.type = "customer.subscription.created"
                                      THEN "create" ELSE "find"])
       /\ UNCHANGED <<subscriptions, now, sessions, updates, req, res, error, ops,
                      before, nreq>>

\* webHook on a create event: handleCreateSubscription and the response
HookCreate ==
  \E s \in DOMAIN requests :
    LET r == requests[s]
        subData == r.body.data.object
        subs1 == handleCreateSubscription(subscriptions, subData, subData.status)
    IN /\ r.handler = "webHook" /\ r.pc = "create"
       /\ subscriptions' = subs1
       /\ requests' = [requests EXCEPT ![s].pc = "done",
                                       ![s].made = subs1[Len(subs1)]._id,
                                       ![s].res = json(status(NewResponse, 200), <<>>)]
       /\ UNCHANGED <<paymentLogs, now, sessions, updates, req, res, error, ops,
                      before, nreq>>

\* webHook on an update event: Subscription.findOne
HookFind ==
  \E s \in DOMAIN requests :
    LET r == requests[s]
        subData == r.body.data.object
        sub == findOne(subscriptions,
                       {i \in DOMAIN subscriptions :
                          IsIncomplete(subData.id, subscriptions[i])})
        activated == {i \in DOMAIN subscriptions :
                        /\ subscriptions[i].subscriptionId = subData.id
                        /\ subscriptions[i].subscriptionStatus = "active"
                        /\ subscriptions[i].subscriptionType = "new"}
    IN /\ r.handler = "webHook" /\ r.pc = "find"
       /\ requests' = [requests EXCEPT ![s].pc = "write",
                                       ![s].sub = sub,
                                       ![s].activatedAtFind = Cardinality(activated)]
       /\ UNCHANGED <<subscriptions, paymentLogs, now, sessions, updates, req, res,
                      error, ops, before, nreq>>

\* webHook on an update event: Subscription.updateOne of the record found,
\* or handleCreateSubscription for a renewal
HookWrite ==
  \E s \in DOMAIN requests :
    LET r == requests[s]
        subData == r.body.data.object
        subs1 == handleCreateSubscription(subscriptions, subData, "renewal")
        ok == json(status(NewResponse, 200), <<>>)
    IN /\ r.handler = "webHook" /\ r.pc = "write"
       /\ IF r.sub # NoId
            THEN /\ subscriptions' = updateOne(subscriptions, r.sub, ActivatePatch)
                 /\ requests' = [requests EXCEPT ![s].pc = "done", ![s].res = ok]
            ELSE IF IsRenewal(subData)
              THEN /\ subscriptions' = subs1
                   /\ requests' = [requests EXCEPT ![s].pc = "patch",
                                                   ![s].made = subs1[Len(subs1)]._id]
              ELSE /\ subscriptions' = subscriptions
                   /\ requests' = [requests EXCEPT ![s].pc = "done", ![s].res = ok]
       /\ UNCHANGED <<paymentLogs, now, sessions, updates, req, res, error, ops,
                      before, nreq>>

\* webHook on a renewal: PaymentLog.updateOne and the response
HookPatch ==
  \E s \in DOMAIN requests :
    LET r == requests[s]
        data == r.body.data
    IN /\ r.handler = "webHook" /\ r.pc = "patch"
       /\ paymentLogs' = updateOne(paymentLogs,
                                   CastObjectId(data.object.metadata.paymentLog),
                                   RenewalLogPatch(r.body))
       /\ requests' = [requests EXCEPT ![s].pc = "done",
                                       ![s].res = json(status(NewResponse, 200), <<>>)]
       /\ UNCHANGED <<subscriptions, now, sessions, updates, req, res, error, ops,
                      before, nreq>>

ConcurrentNext ==
  \/ CheckoutCheck \/ CheckoutLog \/ CheckoutSession
  \/ Deliver \/ HookCreate \/ HookFind \/ HookWrite \/ HookPatch

SpecConcurrent == Init /\ [][ConcurrentNext]_vars

\* The checkout that buys the subscription, served whole before the
\* processor has anything to report, and then the deliveries of the
\* processor's events about the subscription interleaving step by step.
Purchase ==
  LET params == [type |-> "", successUrl |-> "https://app/success",
                 cancelUrl |-> "https://app/cancel"]
      stripe == [products |-> <<[default_price |-> "price_1"]>>, ok |-> TRUE]
      out == createCheckoutSession(subscriptions, paymentLogs, sessions, updates,
                                   now, Subscriber, params, stripe)
  IN /\ sessions = <<>> /\ requests = <<>>
     /\ nreq < MaxLifecycle
     /\ nreq' = nreq + 1
     /\ req' = [handler |-> "createCheckoutSession", user |-> Subscriber,
                body |-> params]
     /\ subscriptions' = out.subscriptions
     /\ paymentLogs' = out.paymentLogs
     /\ sessions' = out.sessions
     /\ updates' = out.updates
     /\ res' = out.res
     /\ error' = out.error
     /\ ops' = out.ops
     /\ before' = [subscriptions |-> subscriptions, paymentLogs |-> paymentLogs,
                   sessions |-> sessions, updates |-> updates, now |-> now]
     /\ UNCHANGED <<now, requests>>

RedeliveryNext ==
  \/ Purchase
  \/ Deliver \/ HookCreate \/ HookFind \/ HookWrite \/ HookPatch

SpecRedelivery == Init /\ [][RedeliveryNext]_vars

\* ------------------------------------------------------------ properties
\* the latest request was a webhook delivery of an event of this type
Delivered(type) == req.handler = "webHook" /\ req.body.type = type

\* the subscription object of the delivered event
Event == req.body.data.object

\* a delivered subscription event that carries its metadata
CreatedEvent == Delivered("customer.subscription.created") /\ Event.metadata.present
UpdatedEvent == Delivered("customer.subscription.updated") /\ Event.metadata.present

\* the records that were incomplete records of the event's subscription
Matching ==
  { i \in DOMAIN before.subscriptions :
      /\ before.subscriptions[i].subscriptionId = Event.id
      /\ before.subscriptions[i].subscriptionStatus = "incomplete" }

\* the records that were live records of user u at time t
LiveAt(subs, u, t) ==
  { i \in DOMAIN subs : /\ subs[i].userId = u
                        /\ subs[i].subscriptionStatus \in {"active", "trialing"}
                        /\ subs[i].endDate >= t }

\* the first i - 1 documents of a collection are as they were
SamePrefix(coll, old) ==
  Len(coll) >= Len(old) /\ \A i \in DOMAIN old : coll[i] = old[i]

\* C1: in every reachable state each user has at most one subscription record
\* that is active or trialing and whose endDate has not passed.
C1_AtMostOneLivePerUser ==
  \A u \in User : Cardinality(LiveAt(subscriptions, u, now)) <= 1

\* C2: a customer.subscription.updated event whose id matches an incomplete
\* record turns the record the lookup finds into active / new, whatever the
\* event's status and cancel_at_period_end, and creates and changes no other.
C2_IncompleteBecomesActive ==
  (UpdatedEvent /\ Matching # {}) =>
    LET i == CHOOSE m \in Matching : \A n \in Matching : m <= n
    IN /\ Len(subscriptions) = Len(before.subscriptions)
       /\ subscriptions[i] = [before.subscriptions[i] EXCEPT
                                !.subscriptionStatus = "active",
                                !.subscriptionType = "new"]
       /\ \A j \in DOMAIN subscriptions :
            j # i => subscriptions[j] = before.subscriptions[j]

C2_Witness ==
  /\ UpdatedEvent /\ Matching # {} /\ res.sent
  /\ Event.cancel_at_period_end /\ Event.status = "trialing"

\* C3: an update event that is not a cancellation and matches no incomplete
\* record creates exactly one record, of type renewal, and rewrites the
\* payment log named by metadata.paymentLog in place: the envelope, the event
\* type, and success for the status active, else the processor's status.
C3_RenewalCreatesRecord ==
  (UpdatedEvent /\ ~Event.cancel_at_period_end /\ Matching = {}) =>
    /\ Len(subscriptions) = Len(before.subscriptions) + 1
    /\ SamePrefix(subscriptions, before.subscriptions)
    /\ subscriptions[Len(subscriptions)].subscriptionType = "renewal"
    /\ subscriptions[Len(subscriptions)].subscriptionId = Event.id
    /\ Len(paymentLogs) = Len(before.paymentLogs) + 1
    /\ \A i \in DOMAIN before.paymentLogs :
         paymentLogs[i] =
           IF ObjectIdToString(before.paymentLogs[i]._id) = Event.metadata.paymentLog
             THEN [before.paymentLogs[i] EXCEPT
                     !.response = req.body,
                     !.event = "customer.subscription.updated",
                     !.status = IF Event.status = "active" THEN "success"
                                ELSE Event.status]
             ELSE before.paymentLogs[i]

C3_Witness ==
  /\ UpdatedEvent /\ ~Event.cancel_at_period_end /\ Matching = {}
  /\ \E i \in DOMAIN before.paymentLogs :
       /\ ObjectIdToString(before.paymentLogs[i]._id) = Event.metadata.paymentLog
       /\ paymentLogs[i].status = "success"
       /\ paymentLogs[i].request # NoRequest

\* C4: an update event that is a cancellation and matches no incomplete record
\* creates and changes no subscription record and changes no payment log that
\* was there.
C4_CancellationWritesNothing ==
  (UpdatedEvent /\ Event.cancel_at_period_end /\ Matching = {}) =>
    /\ subscriptions = before.subscriptions
    /\ SamePrefix(paymentLogs, before.paymentLogs)

C4_Witness ==
  /\ UpdatedEvent /\ Event.cancel_at_period_end /\ Matching = {} /\ res.sent
  /\ \E i \in DOMAIN before.paymentLogs :
       ObjectIdToString(before.paymentLogs[i]._id) = Event.metadata.paymentLog

\* C5: a customer.subscription.created event creates exactly one record, with
\* the user and subscription ids of the event, the processor's status as both
\* its status and its type, and paymentStatus complete.
C5_CreatedEventCreatesRecord ==
  CreatedEvent =>
    /\ Len(subscriptions) = Len(before.subscriptions) + 1
    /\ SamePrefix(subscriptions, before.subscriptions)
    /\ LET d == subscriptions[Len(subscriptions)]
       IN /\ ObjectIdToString(d.userId) = Event.metadata.userId
          /\ d.subscriptionId = Event.id
          /\ d.subscriptionStatus = Event.status
          /\ d.subscriptionType = Event.status
          /\ d.paymentStatus = "complete"

C5_Witness ==
  /\ CreatedEvent /\ Event.status = "trialing" /\ res.sent
  /\ subscriptions[Len(subscriptions)].subscriptionType = "trialing"

\* C6: every delivery, of any type and payload, ends with HTTP 200 and an
\* empty body.
C6_AlwaysAcknowledged ==
  req.handler = "webHook" =>
    res.sent /\ res.statusCode = 200 /\ res.body = <<>> /\ error = ""

\* C7: every delivery creates exactly one payment log, with the envelope, the
\* event type and the object's status (NO-STATUS when absent), unless its type
\* is charge.succeeded or payment_method.attached, when it creates none.
C7_OneLogPerDelivery ==
  req.handler = "webHook" =>
    IF req.body.type \in {"charge.succeeded", "payment_method.attached"}
      THEN Len(paymentLogs) = Len(before.paymentLogs)
      ELSE /\ Len(paymentLogs) = Len(before.paymentLogs) + 1
           /\ LET d == paymentLogs[Len(paymentLogs)]
              IN /\ d.response = req.body
                 /\ d.event = req.body.type
                 /\ d.status = IF Event.present /\ Event.status # Undefined
                                 THEN Event.status ELSE "NO-STATUS"

\* the body of the latest checkout request fails validation
InvalidCheckout ==
  /\ req.handler = "createCheckoutSession"
  /\ \/ req.body.successUrl = ""
     \/ req.body.cancelUrl = ""
     \/ req.body.type \notin {"", "trial"}

\* nothing was written and the processor was not called
NothingChanged ==
  /\ subscriptions = before.subscriptions
  /\ paymentLogs = before.paymentLogs
  /\ sessions = before.sessions
  /\ updates = before.updates

\* C8: a checkout request without successUrl or cancelUrl, or with a type
\* other than "trial", fails with a validation error (400) before any store
\* or processor call; nothing changes.
C8_ValidationBeforeAnyCall ==
  InvalidCheckout =>
    /\ res.statusCode = 400 /\ ~res.sent
    /\ error \in {"Please pass required all parameters.", "Please pass valid type"}
    /\ ops = <<>>
    /\ NothingChanged

C8_Witness ==
  /\ InvalidCheckout /\ req.body.successUrl = "" /\ req.body.cancelUrl # ""
  /\ req.body.type = "" /\ res.statusCode = 400

\* C9: a checkout request with valid parameters by a user who holds a live
\* (active or trialing, unexpired) subscription fails with the conflict error,
\* creates no payment log and asks the processor for no session.
C9_ConflictForLiveSubscriber ==
  ( /\ req.handler = "createCheckoutSession" /\ ~InvalidCheckout
    /\ req.user \in User
    /\ LiveAt(before.subscriptions, req.user, before.now) # {} ) =>
    /\ res.statusCode = 401 /\ ~res.sent
    /\ error = "Subscription already exist."
    /\ paymentLogs = before.paymentLogs
    /\ sessions = before.sessions
    /\ \A k \in DOMAIN ops :
         ops[k] \notin {"PaymentLog.create", "stripe.checkout.sessions.create"}

C9_Witness ==
  /\ req.handler = "createCheckoutSession" /\ ~InvalidCheckout
  /\ \E i \in LiveAt(before.subscriptions, req.user, before.now) :
       before.subscriptions[i].subscriptionStatus = "trialing"
  /\ error = "Subscription already exist."

\* the live records of the caller with the subscription id of the request
Cancellable ==
  { i \in LiveAt(before.subscriptions, req.user, before.now) :
      before.subscriptions[i].subscriptionId = req.body.subscriptionId }

\* C10: cancelSubscription with the id of no live subscription of the caller
\* (another user's, or an expired one) fails with the not-found error and
\* makes no update-subscription call.
C10_NotFoundWithoutCall ==
  ( /\ req.handler = "cancelSubscription" /\ req.body.subscriptionId # ""
    /\ Cancellable = {} ) =>
    /\ res.statusCode = 400 /\ ~res.sent
    /\ error = "Subscription does not exist."
    /\ updates = before.updates
    /\ \A k \in DOMAIN ops : ops[k] # "stripe.subscriptions.update"

C10_Witness ==
  /\ req.handler = "cancelSubscription" /\ Cancellable = {}
  /\ error = "Subscription does not exist."
  /\ \E i \in DOMAIN before.subscriptions :
       /\ before.subscriptions[i].subscriptionId = req.body.subscriptionId
       /\ before.subscriptions[i].userId # req.user
       /\ before.subscriptions[i].subscriptionStatus = "active"
       /\ before.subscriptions[i].endDate >= before.now

\* C12: cancelSubscription, whether it succeeds or fails, leaves both stores
\* as they were; when it succeeds its only effect is one processor call that
\* sets cancel_at_period_end to true for the subscriptionId of the request.
C12_OnlyTheProcessorCall ==
  req.handler = "cancelSubscription" =>
    /\ subscriptions = before.subscriptions
    /\ paymentLogs = before.paymentLogs
    /\ sessions = before.sessions
    /\ IF res.sent
         THEN /\ res.statusCode = 200 /\ error = ""
              /\ updates = Append(before.updates,
                                  [id |-> req.body.subscriptionId,
                                   cancel_at_period_end |-> TRUE])
         ELSE updates = before.updates

C12_Witness ==
  /\ req.handler = "cancelSubscription" /\ res.sent
  /\ Len(updates) = Len(before.updates) + 1
  /\ updates[Len(updates)].id = req.body.subscriptionId
  /\ subscriptions # <<>> /\ paymentLogs # <<>>

\* the records that were there are there, and a status that changed went
\* from incomplete to active on an update event about that subscription
OnlyActivated ==
  \A i \in DOMAIN before.subscriptions :
    /\ i \in DOMAIN subscriptions
    /\ \/ subscriptions[i].subscriptionStatus = before.subscriptions[i].subscriptionStatus
       \/ /\ before.subscriptions[i].subscriptionStatus = "incomplete"
          /\ subscriptions[i].subscriptionStatus = "active"
          /\ Delivered("customer.subscription.updated")
          /\ before.subscriptions[i].subscriptionId = Event.id

\* the records the latest request added
Added == DOMAIN subscriptions \ DOMAIN before.subscriptions

\* C13 as stated: the only change to the status of an existing record is
\* incomplete to active on a matching update event, and every other record is
\* created at active or trialing by the create event.
C13_CreatedActiveOrTrialing ==
  /\ OnlyActivated
  /\ \A i \in Added :
       /\ Delivered("customer.subscription.created")
       /\ subscriptions[i].subscriptionStatus \in {"active", "trialing"}

\* C13: the only change any handler makes to the subscriptionStatus of an
\* existing record is incomplete to active, by webHook on a matching update
\* event; no record is deleted or moved to another status. A record is
\* created by the create event, or as a renewal record by an update event,
\* at the status the event reports, which may be incomplete.
C13_OnlyIncompleteToActive ==
  /\ OnlyActivated
  /\ Len(subscriptions) <= Len(before.subscriptions) + 1
  /\ \A i \in Added :
       /\ subscriptions[i].subscriptionStatus = Event.status
       /\ \/ Delivered("customer.subscription.created")
          \/ /\ Delivered("customer.subscription.updated")
             /\ subscriptions[i].subscriptionType = "renewal"

C13_Witness ==
  /\ Delivered("customer.subscription.updated") /\ Event.status = "trialing"
  /\ \E i \in DOMAIN before.subscriptions :
       /\ before.subscriptions[i].subscriptionStatus = "incomplete"
       /\ subscriptions[i].subscriptionStatus = "active"
  /\ Added = {}

\* the latest request was a checkout that returned a session URL
CheckoutSucceeded == req.handler = "createCheckoutSession" /\ res.sent

\* the latest request was an update event taken for a renewal, carrying the
\* metadata of a checkout session the processor holds
RenewalEcho ==
  /\ UpdatedEvent /\ Matching = {} /\ ~Event.cancel_at_period_end
  /\ \E k \in DOMAIN before.sessions : before.sessions[k].metadata = Event.metadata

\* C14: a successful createCheckoutSession creates exactly one payment log for
\* the caller and sends that log's id (metadata.paymentLog) and the caller's
\* id (metadata.userId) to the processor; when a later renewal update event
\* echoes them, the payment log webHook updates is the one that checkout
\* created, and it belongs to the user of the new subscription record.
C14_EchoedLogIsTheCheckoutLog ==
  /\ CheckoutSucceeded =>
       /\ Len(paymentLogs) = Len(before.paymentLogs) + 1
       /\ SamePrefix(paymentLogs, before.paymentLogs)
       /\ Len(sessions) = Len(before.sessions) + 1
       /\ LET payment == paymentLogs[Len(paymentLogs)]
              session == sessions[Len(sessions)]
          IN /\ payment.userId = req.user
             /\ payment.request # NoRequest
             /\ session.metadata.paymentLog = [hex |-> payment._id]
             /\ session.metadata.userId = [hex |-> req.user]
             /\ session.subscription_data.metadata = session.metadata
             /\ \A i \in DOMAIN before.paymentLogs :
                  before.paymentLogs[i]._id # payment._id
  /\ RenewalEcho =>
       /\ Len(subscriptions) = Len(before.subscriptions) + 1
       /\ \E i \in DOMAIN before.paymentLogs :
            /\ [hex |-> before.paymentLogs[i]._id] = Event.metadata.paymentLog
            /\ before.paymentLogs[i].request # NoRequest
            /\ paymentLogs[i].response = req.body
            /\ paymentLogs[i].userId = subscriptions[Len(subscriptions)].userId
            /\ [hex |-> paymentLogs[i].userId] = Event.metadata.userId
            /\ \A j \in DOMAIN before.paymentLogs \ {i} :
                 paymentLogs[j] = before.paymentLogs[j]

C14_Witness ==
  /\ RenewalEcho /\ Event.status = "active"
  /\ \E i \in DOMAIN before.paymentLogs :
       /\ paymentLogs[i].response = req.body
       /\ paymentLogs[i].status = "success"
       /\ paymentLogs[i].userId = subscriptions[Len(subscriptions)].userId

\* the payment logs that had the id of the latest cancelPayment request
Cancelled ==
  { i \in DOMAIN before.paymentLogs :
      [hex |-> before.paymentLogs[i]._id] = req.body.paymentId }

\* C15: cancelPayment with a paymentId sets status and event of the payment
\* log with that id to "cancel" and returns success; with the id of no payment
\* log it returns success all the same and changes neither store; without a
\* paymentId it fails with a validation error and changes nothing.
C15_CancelPayment ==
  req.handler = "cancelPayment" =>
    IF req.body.paymentId = [hex |-> 0]
      THEN /\ res.statusCode = 400 /\ ~res.sent
           /\ error = "Please pass required all parameters."
           /\ NothingChanged
      ELSE /\ res.statusCode = 200 /\ res.sent /\ error = ""
           /\ res.body = <<[success |-> TRUE]>>
           /\ subscriptions = before.subscriptions
           /\ sessions = before.sessions /\ updates = before.updates
           /\ Len(paymentLogs) = Len(before.paymentLogs)
           /\ \A i \in DOMAIN before.paymentLogs :
                paymentLogs[i] =
                  IF i \in Cancelled
                    THEN [before.paymentLogs[i] EXCEPT !.status = "cancel",
                                                       !.event = "cancel"]
                    ELSE before.paymentLogs[i]

C15_Witness ==
  /\ req.handler = "cancelPayment" /\ res.sent
  /\ \E i \in Cancelled : /\ before.paymentLogs[i].event # "cancel"
                          /\ paymentLogs[i].event = "cancel"
                          /\ paymentLogs[i].status = "cancel"

\* the latest checkout got as far as asking the processor for a session and
\* the processor failed
SessionFailed ==
  /\ req.handler = "createCheckoutSession" /\ error # ""
  /\ ops # <<>> /\ ops[Len(ops)] = "stripe.checkout.sessions.create"

\* C16: when the processor's create-checkout-session call fails after the
\* payment log was created, the failure propagates without compensation: the
\* payment log stays in the store and no URL is returned.
C16_OrphanedLog ==
  SessionFailed =>
    /\ ~res.sent
    /\ sessions = before.sessions /\ subscriptions = before.subscriptions
    /\ SamePrefix(paymentLogs, before.paymentLogs)
    /\ Len(paymentLogs) = Len(before.paymentLogs) + 1
    /\ paymentLogs[Len(paymentLogs)].userId = req.user
    /\ paymentLogs[Len(paymentLogs)].request # NoRequest
    /\ \A k \in DOMAIN sessions :
         sessions[k].metadata.paymentLog # [hex |-> paymentLogs[Len(paymentLogs)]._id]

C16_Witness ==
  /\ SessionFailed /\ error = "StripeError"
  /\ Len(paymentLogs) = Len(before.paymentLogs) + 1
  /\ before.paymentLogs # <<>>

\* C17: the userId of the payment log webHook creates is
\* data.object.subscription_details.userId for the three invoice types,
\* data.object.metadata.userId for the five subscription, checkout and
\* payment-intent types, and absent for every other type.
C17_UserIdByType ==
  ( req.handler = "webHook" /\ Len(paymentLogs) = Len(before.paymentLogs) + 1 ) =>
    LET userId == paymentLogs[Len(paymentLogs)].userId
        type == req.body.type
    IN IF type \in {"invoice.payment_succeeded", "invoice.updated", "invoice.created"}
         THEN [hex |-> userId] = Event.subscription_details.userId
       ELSE IF type \in {"customer.subscription.created",
                         "customer.subscription.updated",
                         "checkout.session.completed",
                         "payment_intent.succeeded", "payment_intent.created"}
         THEN [hex |-> userId] = Event.metadata.userId
       ELSE userId = 0

C17_Witness ==
  /\ Delivered("invoice.payment_succeeded")
  /\ Len(paymentLogs) = Len(before.paymentLogs) + 1
  /\ Event.metadata.present
  /\ Event.metadata.userId # Event.subscription_details.userId
  /\ [hex |-> paymentLogs[Len(paymentLogs)].userId] = Event.subscription_details.userId

\* the records of a subscription collection with the event's subscriptionId
RecordsOf(subs) == { k \in DOMAIN subs : subs[k].subscriptionId = Event.id }

\* the payment logs earlier and present deliveries of the same event left
LogsOf(logs) == { j \in DOMAIN logs : logs[j].response = req.body }

\* C19: webHook looks for no earlier delivery: each delivery of the same
\* customer.subscription.created event adds one more subscription record with
\* that subscriptionId and one more payment log, so n deliveries leave n of
\* each.
C19_NDeliveriesNRecords ==
  CreatedEvent =>
    /\ Cardinality(RecordsOf(subscriptions)) =
         Cardinality(RecordsOf(before.subscriptions)) + 1
    /\ Cardinality(LogsOf(paymentLogs)) = Cardinality(LogsOf(before.paymentLogs)) + 1
    /\ Cardinality(RecordsOf(subscriptions)) >= Cardinality(LogsOf(paymentLogs))

C19_Witness ==
  /\ CreatedEvent
  /\ Cardinality(LogsOf(before.paymentLogs)) = 1
  /\ Cardinality(LogsOf(paymentLogs)) = 2
  /\ Cardinality(RecordsOf(subscriptions)) = 2
  /\ \A k \in RecordsOf(subscriptions) :
       /\ [hex |-> subscriptions[k].userId] = Event.metadata.userId
       /\ subscriptions[k].subscriptionType = Event.status

\* the latest request was the update event the processor sends once it was
\* asked to cancel that subscription at period end
CancellationEvent ==
  /\ UpdatedEvent /\ Event.cancel_at_period_end
  /\ \E k \in DOMAIN before.updates :
       before.updates[k].id = Event.id /\ before.updates[k].cancel_at_period_end

\* the records of the event's subscription that were active or trialing
LiveOfEvent ==
  { i \in DOMAIN before.subscriptions :
      /\ before.subscriptions[i].subscriptionId = Event.id
      /\ before.subscriptions[i].subscriptionStatus \in {"active", "trialing"} }

\* C11 as stated: after a successful cancelSubscription, webHook's handling of
\* the resulting update event (cancel_at_period_end true) changes the local
\* record of that subscription to reflect the cancellation.
C11_LocalTransition ==
  CancellationEvent =>
    \E i \in LiveOfEvent : subscriptions[i] # before.subscriptions[i]

\* C11: after a successful cancelSubscription, webHook's handling of the
\* resulting update event (cancel_at_period_end true) makes no local
\* transition: it only logs the event; no subscription record is created and
\* every active or trialing record, the cancelled one included, is as it was.
C11_NoLocalTransition ==
  CancellationEvent =>
    /\ Len(subscriptions) = Len(before.subscriptions)
    /\ \A i \in DOMAIN before.subscriptions :
         \/ subscriptions[i] = before.subscriptions[i]
         \/ /\ before.subscriptions[i].subscriptionStatus = "incomplete"
            /\ subscriptions[i].subscriptionStatus = "active"
    /\ \A i \in LiveOfEvent : subscriptions[i] = before.subscriptions[i]
    /\ Len(paymentLogs) = Len(before.paymentLogs) + 1
    /\ SamePrefix(paymentLogs, before.paymentLogs)

C11_Witness ==
  /\ CancellationEvent /\ res.sent
  /\ \E i \in LiveOfEvent :
       /\ before.subscriptions[i].userId = 1
       /\ subscriptions[i].subscriptionStatus = "active"
       /\ subscriptions[i].endDate >= now

\* the checkout requests among the requests served step by step
Checkouts ==
  { s \in DOMAIN requests : requests[s].handler = "createCheckoutSession" }

\* a checkout that passed the lookup of a live subscription and wrote its log
Logged(s) == requests[s].pc \in {"session", "done"} /\ requests[s].error = ""

\* a checkout that returned a session URL
Returned(s) == requests[s].pc = "done" /\ requests[s].error = ""

\* C18: the lookup of a live subscription and the later writes of
\* createCheckoutSession are not atomic: a request that passed the lookup
\* goes on to create its own payment log and obtain its own checkout session
\* whatever other requests of the same user did in between, so two concurrent
\* requests of a user without a live subscription both end with a payment log
\* and a session.
C18_BothCheckoutsProceed ==
  \A s \in Checkouts :
    /\ Logged(s) =>
         /\ \E i \in DOMAIN paymentLogs :
              /\ paymentLogs[i]._id = requests[s].payment
              /\ paymentLogs[i].userId = requests[s].user
              /\ paymentLogs[i].request # NoRequest
         /\ \A t \in Checkouts \ {s} :
              Logged(t) => requests[t].payment # requests[s].payment
    /\ Returned(s) =>
         /\ requests[s].res.sent /\ requests[s].res.statusCode = 200
         /\ \E k \in DOMAIN sessions :
              /\ sessions[k].metadata.paymentLog = [hex |-> requests[s].payment]
              /\ sessions[k].metadata.userId = [hex |-> requests[s].user]
              /\ requests[s].res.body = <<[url |-> sessions[k].url]>>
    /\ requests[s].error # "" =>
         /\ requests[s].payment = 0
         /\ \E i \in DOMAIN subscriptions :
              /\ subscriptions[i]._id = requests[s].sub
              /\ subscriptions[i].userId = requests[s].user
              /\ subscriptions[i].subscriptionStatus \in {"active", "trialing"}

\* two checkouts of one user that both ran the lookup before either wrote its
\* payment log, and both returned a session
C18_Witness ==
  \E s \in Checkouts : \E t \in Checkouts \ {s} :
    /\ requests[s].user = requests[t].user
    /\ requests[s].logsAtCheck = requests[t].logsAtCheck
    /\ Returned(s) /\ Returned(t)
    /\ requests[s].res.body # requests[t].res.body
    /\ Cardinality({ i \in DOMAIN paymentLogs :
                       /\ paymentLogs[i].userId = requests[s].user
                       /\ paymentLogs[i].request # NoRequest }) >= 2
    /\ Len(sessions) >= 2
    /\ LiveAt(subscriptions, requests[s].user, now) = {}

\* the deliveries of an update event (not set to cancel) that have returned and
\* whose lookup ran after an update event had moved a record of the
\* subscription from incomplete to active
SecondDeliveries ==
  { s \in DOMAIN requests :
      /\ requests[s].handler = "webHook" /\ requests[s].pc = "done"
      /\ requests[s].body.type = "customer.subscription.updated"
      /\ ~requests[s].body.data.object.cancel_at_period_end
      /\ requests[s].activatedAtFind > 0
      /\ \E t \in DOMAIN requests \ {s} :
           requests[t].body = requests[s].body /\ requests[t].sub # 0 }

\* the delivery added a renewal record for the event's subscription
Renewed(s) ==
  \E k \in DOMAIN subscriptions :
    /\ subscriptions[k]._id = requests[s].made
    /\ subscriptions[k].subscriptionId = requests[s].body.data.object.id
    /\ subscriptions[k].subscriptionType = "renewal"

\* the payment log the event's metadata refers to holds the event
Overwritten(s) ==
  \E j \in DOMAIN paymentLogs :
    /\ [hex |-> paymentLogs[j]._id] = requests[s].body.data.object.metadata.paymentLog
    /\ paymentLogs[j].request # NoRequest
    /\ paymentLogs[j].response = requests[s].body
    /\ paymentLogs[j].event = "customer.subscription.updated"
    /\ paymentLogs[j].status = "success"

\* C20 as stated: once an update event has moved a subscription's incomplete
\* record to active, a second delivery of the same event finds no incomplete
\* record, creates a renewal record and overwrites the referenced payment log.
C20_SecondDeliveryRenews ==
  \A s \in SecondDeliveries :
    requests[s].sub = 0 /\ Renewed(s) /\ Overwritten(s)

\* C20: once an update event has moved a subscription's incomplete record to
\* active, a second delivery of the same event (cancel_at_period_end false),
\* sequential or interleaved after the first delivery's update, that finds no
\* other incomplete record of that subscription creates one more record with
\* subscriptionType renewal for the same subscriptionId and overwrites the
\* payment log metadata.paymentLog refers to; while another incomplete record
\* of that subscription remains it activates that record and creates none.
C20_SecondDeliveryRenewsOrActivates ==
  \A s \in SecondDeliveries :
    IF requests[s].sub = 0
      THEN Renewed(s) /\ Overwritten(s)
      ELSE /\ requests[s].made = 0
           /\ \E k \in DOMAIN subscriptions :
                /\ subscriptions[k]._id = requests[s].sub
                /\ subscriptions[k].subscriptionId = requests[s].body.data.object.id
                /\ subscriptions[k].subscriptionStatus = "active"
                /\ subscriptions[k].subscriptionType = "new"

\* a delivery that came in first and ran its lookup after a later delivery of
\* the same event had activated the record
C20_Witness ==
  \E s \in SecondDeliveries : \E t \in DOMAIN requests :
    /\ s < t
    /\ requests[t].body = requests[s].body /\ requests[t].sub # 0
    /\ requests[s].sub = 0
    /\ Renewed(s) /\ Overwritten(s)
    /\ Cardinality({ k \in DOMAIN subscriptions :
                       subscriptions[k].subscriptionId = "sub_1" }) = 2

====
